---- MODULE Spec2Model ----
(***************************************************************************)
(* A model of the Willhaben scraper service (src/app.py): the persistent   *)
(* Playwright session and its lock, the discovery run (scrape_listings),   *)
(* the catalog synchronisation (scrape_and_store_cars), the enrichment and *)
(* cleanup jobs, and the APScheduler jobs and the manual trigger that run  *)
(* them.                                                                   *)
(***************************************************************************)
EXTENDS Integers, Sequences, FiniteSets, TLC

(***************************************************************************)
(* Bounds of the model.                                                    *)
(***************************************************************************)
\* The largest number of listings a served search page holds; a page of n
\* lists the listings n .. 1.
MaxLinks == 13
\* The largest page of the specification Spec, which draws small pages.
MaxSmallPage == 1
\* Discovery invocations (ScrapingLog rows) per behaviour.
MaxRuns == 2
\* An extraction error is injected at one of the first MaxErrIdx candidates.
MaxErrIdx == 1
\* The largest gallery a detail page yields in the model (the code caps at 10).
MaxGallery == 3
\* The days the clock advances in a behaviour of JobSpec.
MaxTicks == 1
\* The pages of PageSpec: at most MaxPageLen links, to the listings
\* 1 .. MaxPageIds.
MaxPageLen == 3
MaxPageIds == 2
\* The tables of SelectSpec hold at most MaxNeedy rows without a gallery.
MaxNeedy == 21
\* The sessions of CallSpec have created at most MaxPagesMade pages.
MaxPagesMade == 3
\* The detail pages of DetailSpec: at most MaxImgs img elements with any
\* src, before a gallery of photos.
MaxImgs == 2
\* The titles of BrandSpec: at most MaxTitleWords words.
MaxTitleWords == 3
\* The environment setting FAST_SCRAPE_MAX_CARS (int(os.getenv(...)), any
\* integer; '40' when unset): the deployment modelled cuts a page off after
\* this many candidates, one fewer than the largest page.
FAST_SCRAPE_MAX_CARS == 12

(***************************************************************************)
(* Program constants.                                                      *)
(***************************************************************************)
\* len(scraped_cars) > 10
DEACTIVATION_THRESHOLD == 10
\* timedelta(days=7); the clock counts days.
RETENTION_DAYS == 7
\* priority_enrich_latest(..., max_items=10)
PRIORITY_MAX_ITEMS == 10
\* .limit(200) and len(cars_needing_images) >= 20
ENRICH_CANDIDATE_LIMIT == 200
ENRICH_BATCH == 20
\* details['images'][:10]
DETAIL_IMAGE_LIMIT == 10

Ids == 1 .. MaxLinks

\* "sched": the APScheduler worker running job fast_scrape; "manual": a
\* request thread serving POST /api/trigger-scrape.
DiscThreads == {"sched", "manual"}
\* "main": the main thread, which runs the atexit handlers at process exit.
Threads == DiscThreads \cup {"main"}
Jobs == {"priority_enrich", "enrich", "cleanup"}
\* The jobs that write the cars table (job priority_enrich is called without
\* ids and returns at once).
TableJobs == {"enrich", "cleanup"}

\* None for an optional column or handle.
None == 0

VARIABLES
    locked,             \* PersistentPlaywright._lock is held
    session,            \* PersistentPlaywright's handles and consent flag
    pages_made,         \* pages created so far: names the page handles
    pc,                 \* where each thread is
    car_listings,       \* scrape_listings: the unique candidates of the run
    cars,               \* scrape_listings' result / scraped_cars
    newly_added,        \* newly_added_listing_ids of the run
    log_row,            \* the run's ScrapingLog row (index into scraping_log)
    scraping_log,       \* the scraping_log table
    catalog,            \* the cars table, rows in insertion order
    running,            \* APScheduler: the job has an instance in flight
    enrich_sel,         \* enrich_cars_with_images: cars_needing_images
    scheduler_running,  \* scheduler.running
    now,                \* the clock (days)
    served,             \* the elements of the page the site serves
    details,            \* scrape_car_details: the result of the last call
    attempts,           \* scrape_listings: the consent selectors the run tried
    closes,             \* the close() calls of the last reset() or shutdown()
    title,              \* _parse_brand_model: the title of the last call
    parsed              \* _parse_brand_model: the result of the last call

vars == <<locked, session, pages_made, pc, car_listings, cars, newly_added,
          log_row, scraping_log, catalog, running, enrich_sel,
          scheduler_running, now,
          title, parsed, served, details, attempts, closes>>

(***************************************************************************)
(* Helpers.                                                                *)
(***************************************************************************)
Range(s) == {s[i] : i \in 1 .. Len(s)}

Min(a, b) == IF a < b THEN a ELSE b

Max(a, b) == IF a > b THEN a ELSE b

\* s without the element at index k (k = 0: s)
SeqFilterOut(s, k) ==
    IF k = 0 \/ k > Len(s) THEN s
    ELSE SubSeq(s, 1, k - 1) \o SubSeq(s, k + 1, Len(s))

(***************************************************************************)
(* The cars table.                                                         *)
(***************************************************************************)
\* The rows of the table are kept in insertion order; listing_id is a column
\* of the row, and its uniqueness is the unique index's work (CommitConflict).
Rows(cat, id) == {k \in 1 .. Len(cat) : cat[k].listing_id = id}

HasRow(cat, id) == Rows(cat, id) # {}

\* Car.query.filter_by(listing_id=id).first()
FirstRow(cat, id) == CHOOSE k \in Rows(cat, id) : \A j \in Rows(cat, id) : k <= j

ActiveIds(cat) == {cat[k].listing_id : k \in {j \in 1 .. Len(cat) : cat[j].is_active}}

(***************************************************************************)
(* PersistentPlaywright.                                                   *)
(***************************************************************************)
NoSession == [playwright |-> FALSE, browser |-> FALSE, context |-> FALSE,
              page |-> None, cookies_accepted |-> FALSE]

\* The outcomes of a launch: how many of the four handles (driver, browser,
\* context, page) were created before a call raised; 4 is a full launch.
LaunchOutcomes == 0 .. 4

\* _ensure_started: the session after the call; fresh names the new page.
EnsureStarted(s, made, fresh) ==
    IF s.playwright THEN s
    ELSE [playwright |-> made >= 1, browser |-> made >= 2,
          context |-> made >= 3,
          page |-> IF made >= 4 THEN fresh ELSE s.page,
          cookies_accepted |-> IF made >= 4 THEN FALSE ELSE s.cookies_accepted]

\* _ensure_started raises: the launch stopped before the page was created.
EnsureStartedRaises(s, made) == ~s.playwright /\ made < 4

\* What may raise inside reset() and shutdown(): the close of a handle
\* (swallowed) and, in reset(), the creation of the new page (not caught).
Faults == {"page", "context", "browser", "playwright", "new_page"}

\* A reset that leaves the consent flag as it is.
ResetBodyKeepsConsent(s, fresh, failing) ==
    IF ~s.context \/ "new_page" \in failing THEN s
    ELSE [s EXCEPT !.page = fresh]

\* reset, under the lock; the calls of `failing` raise. Without a context
\* the call returns at once; when new_page raises, _page and the consent
\* flag stay as they were and the exception leaves reset().
ResetBody(s, fresh, failing) ==
    IF ~s.context \/ "new_page" \in failing THEN s
    ELSE [s EXCEPT !.page = fresh, !.cookies_accepted = FALSE]

\* reset() raises.
ResetRaises(s, failing) == s.context /\ "new_page" \in failing

\* The close() call of reset(), with its outcome.
ResetCloses(s, failing) ==
    IF s.context /\ s.page # None
    THEN <<[handle |-> "page", ok |-> "page" \notin failing]>>
    ELSE <<>>

\* shutdown, under the lock.
ShutdownBody(s) == NoSession

\* A shutdown that gives up at the first close that raises.
ShutdownClosesUntilFailure(s, failing) ==
    LET order == <<"page", "context", "browser", "playwright">>
        held == SelectSeq(order, LAMBDA h :
                    IF h = "page" THEN s.page # None ELSE s[h])
        stop == {k \in 1 .. Len(held) : held[k] \in failing}
        last == IF stop = {} THEN Len(held)
                ELSE CHOOSE k \in stop : \A j \in stop : k <= j
    IN  [k \in 1 .. last |-> [handle |-> held[k], ok |-> held[k] \notin failing]]

\* The close() and stop() calls of shutdown(), in order, with their
\* outcomes: each handle that is held, whatever the calls before it did.
ShutdownCloses(s, failing) ==
    LET order == <<"page", "context", "browser", "playwright">>
        held == SelectSeq(order, LAMBDA h :
                    IF h = "page" THEN s.page # None ELSE s[h])
    IN  [k \in 1 .. Len(held) |->
            [handle |-> held[k], ok |-> held[k] \notin failing]]

\* A lock that every acquire gets at once.
LockAlwaysFree == TRUE

\* threading.Lock.acquire: the lock is free (the lock is not reentrant).
LockFree == ~locked

(***************************************************************************)
(* scrape_listings: the candidates of a page and the extracted batch.      *)
(***************************************************************************)
\* The listing links of a served page, in DOM order: the listings n .. 1,
\* the latest first; extra adds a second link to the first listing ("dup")
\* or puts a link under a category path first ("cat").
PageLinks(n, extra) ==
    LET plain == [k \in 1 .. n |-> [id |-> n - k + 1, cat |-> FALSE]]
    IN  IF n = 0 THEN <<>>
        ELSE IF extra = "dup" THEN Append(plain, [id |-> n, cat |-> FALSE])
        ELSE IF extra = "cat" THEN <<[id |-> n, cat |-> TRUE]>> \o plain
        ELSE plain

\* The page sizes the specifications draw from: SmallSizes for Spec;
\* SyncSizes, around the deactivation threshold and FAST_SCRAPE_MAX_CARS,
\* for SyncSpec.
SmallSizes == 0 .. MaxSmallPage

SyncSizes == {1, DEACTIVATION_THRESHOLD, DEACTIVATION_THRESHOLD + 1,
              FAST_SCRAPE_MAX_CARS, MaxLinks}

Extras == {"none", "dup", "cat"}

\* The pages of the given sizes.
Pages(sizes) == {PageLinks(n, extra) : n \in sizes, extra \in Extras}

\* The pages JobSpec draws from list listing 1; those RaceSpec draws from
\* list listing 1 or listings 2 and 1.
SinglePages == Pages({1})

RacePages == {PageLinks(1, "none"), PageLinks(2, "none")}

\* Every page of at most MaxPageLen links, each to one of the listings
\* 1 .. MaxPageIds, under a search/category path or not.
Links == [id : 1 .. MaxPageIds, cat : BOOLEAN]

AnyPages == UNION {[1 .. n -> Links] : n \in 0 .. MaxPageLen}

RECURSIVE CollectFrom(_, _, _)
CollectFrom(links, k, acc) ==
    IF k > Len(links) THEN acc
    ELSE LET l == links[k]
         IN  IF l.id \in Range(acc) THEN CollectFrom(links, k + 1, acc)
             ELSE IF l.cat THEN CollectFrom(links, k + 1, acc)
             ELSE CollectFrom(links, k + 1, Append(acc, l.id))

\* A collection that does not look at seen_ids.
CollectEveryLink(links) ==
    LET free == SelectSeq(links, LAMBDA l : ~l.cat)
    IN  [k \in 1 .. Len(free) |-> free[k].id]

\* car_listings: the unique candidate ids, first occurrence first.
CollectCandidates(links) == CollectFrom(links, 1, <<>>)

\* car_listings[:self.max_cars]
CutOff(listings, max_cars) == SubSeq(listings, 1, Min(Len(listings), max_cars))

\* What the page shows for each listing of a run (the same for all of
\* them): a thumbnail or none, a posted date or none, a price or none.
FullProfile == [image_urls |-> 1, posted_at |-> 1, price |-> 1]

BareProfile == [image_urls |-> 0, posted_at |-> None, price |-> None]

Profiles == {FullProfile, BareProfile}

CarData(id, prof) ==
    [listing_id |-> id, image_urls |-> prof.image_urls,
     posted_at |-> prof.posted_at, price |-> prof.price]

\* An extraction loop that ends at the candidate whose extraction raised.
ExtractCarsUntilError(listings, max_cars, bad, prof) ==
    LET cut == SubSeq(listings, 1, Min(Len(listings), max_cars))
        kept == IF bad = 0 \/ bad > Len(cut) THEN cut
                ELSE SubSeq(cut, 1, bad - 1)
    IN  [k \in 1 .. Len(kept) |->
            [listing_id |-> kept[k], image_urls |-> prof.image_urls,
             posted_at |-> prof.posted_at, price |-> prof.price]]

\* The extraction loop: the first max_cars candidates, without the one whose
\* extraction raised (bad = 0: none raised).
ExtractCars(listings, max_cars, bad, prof) ==
    LET kept == SeqFilterOut(CutOff(listings, max_cars), bad)
    IN  [k \in 1 .. Len(kept) |-> CarData(kept[k], prof)]

ListingIds(batch) == {batch[k].listing_id : k \in 1 .. Len(batch)}

\* The guard without its size test.
DeactivationGuardAnySize(batch) == ListingIds(batch) # {}

(***************************************************************************)
(* scrape_and_store_cars: the synchronisation.                             *)
(***************************************************************************)
\* if current_listing_ids and len(scraped_cars) > 10
DeactivationGuard(batch) ==
    ListingIds(batch) # {} /\ Len(batch) > DEACTIVATION_THRESHOLD

\* The ids the loop inserts: those with no row, in batch order.
NewlyAdded(batch, cat) ==
    LET ids == [k \in 1 .. Len(batch) |-> batch[k].listing_id]
    IN  SelectSeq(ids, LAMBDA i : ~HasRow(cat, i))

\* Car(**car_data) with the column defaults.
NewCar(data, t) ==
    [listing_id |-> data.listing_id, is_active |-> TRUE, price |-> data.price,
     posted_at |-> data.posted_at, image_urls |-> data.image_urls,
     first_seen_at |-> t, last_seen_at |-> t]

\* An update that replaces the row by a new one.
UpdateCarAsNew(car, data, t) == NewCar(data, t)

\* An update that overwrites every scraped column, empty or not.
UpdateCarOverwrites(car, data, t) ==
    [car EXCEPT !.last_seen_at = t,
                !.is_active = TRUE,
                !.price = data.price,
                !.posted_at = data.posted_at,
                !.image_urls = data.image_urls]

\* The update of an existing row.
UpdateCar(car, data, t) ==
    [car EXCEPT !.last_seen_at = t,
                !.is_active = TRUE,
                !.price = data.price,
                !.posted_at = IF data.posted_at # None THEN data.posted_at ELSE @,
                !.image_urls = IF data.image_urls # 0 THEN data.image_urls ELSE @]

DataOf(batch, id) == CHOOSE d \in Range(batch) : d.listing_id = id

\* A loop that adds a row for every item of the batch.
UpsertedAlwaysAdds(cat, batch, inserted, t) ==
    cat \o [k \in 1 .. Len(batch) |-> NewCar(batch[k], t)]

\* The table after the loop: the rows found are updated, the new ones added.
Upserted(cat, batch, inserted, t) ==
    LET updated == [k \in 1 .. Len(cat) |->
                      IF /\ cat[k].listing_id \in ListingIds(batch) \ inserted
                         /\ k = FirstRow(cat, cat[k].listing_id)
                      THEN UpdateCar(cat[k], DataOf(batch, cat[k].listing_id), t)
                      ELSE cat[k]]
        fresh == SelectSeq(batch, LAMBDA d : d.listing_id \in inserted)
    IN  updated \o [k \in 1 .. Len(fresh) |-> NewCar(fresh[k], t)]

\* A bulk update that changes no row.
DeactivatedNone(cat, batch) == cat

\* The bulk update marking absent active rows inactive.
Deactivated(cat, batch) ==
    [k \in 1 .. Len(cat) |->
        IF cat[k].is_active /\ cat[k].listing_id \notin ListingIds(batch)
        THEN [cat[k] EXCEPT !.is_active = FALSE]
        ELSE cat[k]]

\* The cars table after the loop and the deactivation step.
SyncResult(cat, batch, inserted, t) ==
    IF DeactivationGuard(batch)
    THEN Deactivated(Upserted(cat, batch, inserted, t), batch)
    ELSE Upserted(cat, batch, inserted, t)

\* A table without the unique index on listing_id: no commit fails.
CommitConflictNever(cat, batch, inserted) == FALSE

\* The commit fails: a planned insert meets a row committed meanwhile
\* (listing_id is unique), or a planned update finds its row deleted.
CommitConflict(cat, batch, inserted) ==
    \E i \in ListingIds(batch) :
        IF i \in inserted THEN HasRow(cat, i) ELSE ~HasRow(cat, i)

NewLogRow == [status |-> "none", completed |-> FALSE,
              cars_found |-> 0, cars_added |-> 0, cars_updated |-> 0]

(***************************************************************************)
(* scrape_car_details: the images of a detail page.                        *)
(***************************************************************************)
\* The URL an img element carries (src, data-src, data-original or the last
\* srcset entry): absolute, protocol-relative ("//host/...") or
\* root-relative ("/..."), on the site's host or on the image host, and
\* by its text a photo, a thumbnail ('thumb'), an icon ('icon') or a
\* drawing (ends with '.svg'). An element may carry no URL (NoUrl).
NoUrl == [form |-> "none", host |-> "none", name |-> 0, kind |-> "none"]

Urls ==
    [form : {"abs", "proto"}, host : {"site", "cdn"}, name : {0},
     kind : {"photo", "thumb", "icon", "svg"}]
    \cup [form : {"root"}, host : {"site"}, name : {0},
          kind : {"photo", "thumb", "icon", "svg"}]

\* Lines 652-655: "//..." gets the scheme, "/..." the site's origin.
Normalise(url) == [url EXCEPT !.form = "abs"]

\* Line 658.
Excluded(url) == url.kind \in {"thumb", "icon", "svg"}

\* Lines 635-660: the elements in selector order; `images` is
\* details['images'], `seen` is seen_urls. The test of line 651 is made on
\* the URL as the element carries it, seen_urls holds the URLs as appended.
RECURSIVE CollectImages(_, _, _, _)
CollectImages(elems, k, images, seen) ==
    IF k > Len(elems) THEN images
    ELSE LET url == elems[k]
         IN  IF url = NoUrl \/ url \in seen \/ Excluded(Normalise(url))
             THEN CollectImages(elems, k + 1, images, seen)
             ELSE CollectImages(elems, k + 1,
                                Append(images, Normalise(url)),
                                seen \cup {Normalise(url)})

\* Line 693: the first DETAIL_IMAGE_LIMIT images.
DetailImages(elems) ==
    LET images == CollectImages(elems, 1, <<>>, {})
    IN  SubSeq(images, 1, Min(Len(images), DETAIL_IMAGE_LIMIT))

\* A gallery of n photos, absolute URLs on the image host.
Photos(n) ==
    [k \in 1 .. n |->
        [form |-> "abs", host |-> "cdn", name |-> k, kind |-> "photo"]]

\* The detail pages of DetailSpec: up to MaxImgs elements with any URL or
\* none, then a gallery whose size is around DETAIL_IMAGE_LIMIT.
DetailPages ==
    {first \o Photos(n) :
        first \in UNION {[1 .. m -> Urls \cup {NoUrl}] : m \in 0 .. MaxImgs},
        n \in {0, DETAIL_IMAGE_LIMIT - 1, DETAIL_IMAGE_LIMIT,
               DETAIL_IMAGE_LIMIT + 1}}

\* No call of scrape_car_details has returned.
NoDetails == [images |-> <<>>, posted_at |-> None, returned |-> FALSE]

(***************************************************************************)
(* _parse_brand_model. A text is a sequence of characters.                 *)
(***************************************************************************)
\* common_brands, in the order of the source; of its 54 entries the model
\* keeps 'Ford', 'Kia', 'Mini' and 'VW'.
common_brands ==
    <<(<<"F", "o", "r", "d">>), (<<"K", "i", "a">>),
      (<<"M", "i", "n", "i">>), (<<"V", "W">>)>>

\* The least and the greatest number of a set of numbers.
Least(S) == CHOOSE x \in S : \A y \in S : x <= y

Greatest(S) == CHOOSE x \in S : \A y \in S : x >= y

\* str.upper() on the letters of the model's titles.
LowerCase == <<"a", "d", "f", "i", "k", "l", "n", "o", "r", "v">>

UpperCase == <<"A", "D", "F", "I", "K", "L", "N", "O", "R", "V">>

Upper(text) ==
    [k \in 1 .. Len(text) |->
        IF \E j \in 1 .. Len(LowerCase) : LowerCase[j] = text[k]
        THEN UpperCase[CHOOSE j \in 1 .. Len(LowerCase) : LowerCase[j] = text[k]]
        ELSE text[k]]

\* pat occurs in text at index `at`.
OccursAt(text, pat, at) ==
    /\ at + Len(pat) - 1 <= Len(text)
    /\ \A i \in 1 .. Len(pat) : text[at + i - 1] = pat[i]

\* brand.upper() in title_upper
OccursIn(pat, text) == \E at \in 1 .. Len(text) : OccursAt(text, pat, at)

\* \w of the regular expressions: every character of the model's titles
\* but the blank and the hyphen.
WordChar(c) == c \notin {" ", "-"}

\* pattern.search(title) for \b<brand>\b with re.IGNORECASE: the index of
\* the leftmost match, 0 when there is none.
Search(text, brand) ==
    LET ends(at) == at + Len(brand) - 1
        found == {at \in 1 .. Len(text) :
                    /\ OccursAt(Upper(text), Upper(brand), at)
                    /\ at = 1 \/ ~WordChar(text[at - 1])
                    /\ ends(at) = Len(text) \/ ~WordChar(text[ends(at) + 1])}
    IN  IF found = {} THEN 0 ELSE Least(found)

\* str.strip()
Strip(text) ==
    LET inked == {k \in 1 .. Len(text) : text[k] # " "}
    IN  IF inked = {} THEN <<>> ELSE SubSeq(text, Least(inked), Greatest(inked))

\* The end of the run of non-blank characters that starts at index k.
RunEnd(text, k) ==
    LET blanks == {j \in k .. Len(text) : text[j] = " "}
    IN  IF blanks = {} THEN Len(text) ELSE Least(blanks) - 1

\* Group 1 of ^[\s\-]*([A-Za-z0-9\-]+(?:\s+[A-Za-z0-9\-]+)?) on the
\* stripped text after the brand, <<>> when it does not match: the leading
\* blanks and hyphens are skipped (all but a last hyphen when there is
\* nothing else), then one token or two tokens with the blanks between.
ModelMatch(after) ==
    LET starts == {k \in 1 .. Len(after) : after[k] \notin {" ", "-"}}
    IN  IF after = <<>> THEN <<>>
        ELSE IF starts = {} THEN <<"-">>
        ELSE LET k == Least(starts)
                 e == RunEnd(after, k)
                 more == {j \in e + 1 .. Len(after) : after[j] # " "}
             IN  IF more = {} THEN SubSeq(after, k, e)
                 ELSE SubSeq(after, k, RunEnd(after, Least(more)))

\* _parse_brand_model: brand is an index of common_brands or None, model a
\* text or <<>> for None. The first entry that occurs in the upper-cased
\* title is returned, with a model when it matches as a whole word and a
\* model of more than one character follows.
ParseBrandModel(text) ==
    LET hits == {b \in 1 .. Len(common_brands) :
                    OccursIn(Upper(common_brands[b]), Upper(text))}
    IN  IF hits = {} THEN [brand |-> None, model |-> <<>>]
        ELSE LET b == Least(hits)
                 at == Search(text, common_brands[b])
                 after == Strip(SubSeq(text, at + Len(common_brands[b]),
                                       Len(text)))
                 model == ModelMatch(after)
             IN  IF at # 0 /\ Len(model) > 1
                 THEN [brand |-> b, model |-> model]
                 ELSE [brand |-> b, model |-> <<>>]

\* The words of the titles of BrandSpec.
TitleWords ==
    {<<"F", "o", "r", "d">>, <<"k", "i", "a">>, <<"K", "i", "a", "r", "a">>,
     <<"M", "i", "n", "i", "v", "a", "n">>, <<"V", "W">>,
     <<"G", "o", "l", "f">>, <<"X">>, <<"-">>}

RECURSIVE Joined(_)
Joined(words) ==
    IF words = <<>> THEN <<>>
    ELSE IF Len(words) = 1 THEN words[1]
    ELSE words[1] \o <<" ">> \o Joined(Tail(words))

\* The titles: at most MaxTitleWords words, a blank between two.
Titles ==
    {Joined(words) :
        words \in UNION {[1 .. n -> TitleWords] : n \in 0 .. MaxTitleWords}}

\* No call of _parse_brand_model has returned.
NoParse == [brand |-> None, model |-> <<>>, returned |-> FALSE]

(***************************************************************************)
(* The initial state: configure_app has run, nothing is scheduled yet.     *)
(***************************************************************************)
Init ==
    /\ locked = FALSE
    /\ session = NoSession
    /\ pages_made = 0
    /\ pc = [t \in Threads |-> IF t = "main" THEN "serving" ELSE "idle"]
    /\ car_listings = [t \in DiscThreads |-> <<>>]
    /\ cars = [t \in DiscThreads |-> <<>>]
    /\ newly_added = [t \in DiscThreads |-> <<>>]
    /\ log_row = [t \in DiscThreads |-> 0]
    /\ scraping_log = <<>>
    /\ catalog = <<>>
    /\ running = [j \in Jobs |-> FALSE]
    /\ enrich_sel = {}
    /\ scheduler_running = TRUE
    /\ now = 0
    /\ served = <<>>
    /\ details = NoDetails
    /\ attempts = [t \in DiscThreads |-> <<>>]
    /\ closes = <<>>
    /\ title = <<>>
    /\ parsed = NoParse

\* The process starts on a database an earlier process left: the table is
\* empty or holds listing 1, first seen at day 0 and last seen at day 0 or
\* 1, active or not, with or without a thumbnail and a posted date; the
\* clock stands RETENTION_DAYS + 1 days after day 0.
StartDay == RETENTION_DAYS + 1

StoredCar(active, seen, prof) ==
    [listing_id |-> 1, is_active |-> active, price |-> 1,
     posted_at |-> prof.posted_at, image_urls |-> prof.image_urls,
     first_seen_at |-> 0, last_seen_at |-> seen]

StoredTables ==
    {<<>>} \cup {<<StoredCar(a, l, prof)>> :
                    a \in BOOLEAN, l \in {0, 1}, prof \in Profiles}

\* The table is empty or holds listing 1, inactive and last seen more than
\* RETENTION_DAYS days ago.
ExpiredTables == {<<>>, <<StoredCar(FALSE, 0, FullProfile)>>}

StartOn(tables) ==
    /\ locked = FALSE
    /\ session = NoSession
    /\ pages_made = 0
    /\ pc = [t \in Threads |-> IF t = "main" THEN "serving" ELSE "idle"]
    /\ car_listings = [t \in DiscThreads |-> <<>>]
    /\ cars = [t \in DiscThreads |-> <<>>]
    /\ newly_added = [t \in DiscThreads |-> <<>>]
    /\ log_row = [t \in DiscThreads |-> 0]
    /\ scraping_log = <<>>
    /\ catalog \in tables
    /\ running = [j \in Jobs |-> FALSE]
    /\ enrich_sel = {}
    /\ scheduler_running = TRUE
    /\ now = StartDay
    /\ served = <<>>
    /\ details = NoDetails
    /\ attempts = [t \in DiscThreads |-> <<>>]
    /\ closes = <<>>
    /\ title = <<>>
    /\ parsed = NoParse

StoredInit == StartOn(StoredTables)

\* A table of `needy` rows with `img` images (0 or 1), stored oldest first,
\* followed by `newer` rows that were first seen later and hold a full
\* gallery. All rows are active, but the oldest when `gone`.
LargeTable(needy, img, newer, gone) ==
    [k \in 1 .. needy + newer |->
        [listing_id |-> k,
         is_active |-> ~(gone /\ k = 1),
         price |-> 1,
         posted_at |-> 1,
         image_urls |-> IF k <= needy THEN img ELSE MaxGallery,
         first_seen_at |-> IF k <= needy THEN k ELSE needy + 1,
         last_seen_at |-> StartDay]]

\* The tables of SelectSpec: up to MaxNeedy rows without a gallery and
\* no newer rows, or newer rows up to and around the candidate limit.
LargeTables ==
    {LargeTable(needy, img, newer, gone) :
        needy \in 0 .. MaxNeedy, img \in {0, 1},
        newer \in {0, ENRICH_CANDIDATE_LIMIT - 1, ENRICH_CANDIDATE_LIMIT},
        gone \in BOOLEAN}

LargeInit == StartOn(LargeTables)

\* The tables of FairSelectSpec: up to MaxNeedy rows without a gallery.
NeedyTables ==
    {LargeTable(needy, img, 0, gone) :
        needy \in 0 .. MaxNeedy, img \in {0, 1}, gone \in BOOLEAN}

NeedyInit == StartOn(NeedyTables)

\* The sessions reset() and shutdown() may meet: a launch that stopped
\* before the page was created, or a started session on its latest page,
\* with the consent flag set or not.
Sessions ==
    {EnsureStarted(NoSession, made, 1) : made \in 0 .. 3}
    \cup {[playwright |-> TRUE, browser |-> TRUE, context |-> TRUE,
           page |-> p, cookies_accepted |-> c] :
             p \in 1 .. MaxPagesMade, c \in BOOLEAN}

\* A thread calls reset() from outside a page() block, or the process exits
\* and calls shutdown(), on a session of Sessions; the lock is free. (The
\* calls of reset() in scrape_listings are made inside the page() block and
\* wait for the lock: Spec.)
CallInit ==
    /\ locked = FALSE
    /\ session \in Sessions
    /\ pages_made = session.page
    /\ \E call \in {"reset", "shutdown"} :
          /\ pc = [t \in Threads |->
                     IF call = "reset"
                     THEN (IF t = "main" THEN "serving"
                           ELSE IF t = "sched" THEN "reset_wait" ELSE "idle")
                     ELSE (IF t = "main" THEN "exit_wait" ELSE "idle")]
          /\ scheduler_running = (call = "reset")
    /\ car_listings = [t \in DiscThreads |-> <<>>]
    /\ cars = [t \in DiscThreads |-> <<>>]
    /\ newly_added = [t \in DiscThreads |-> <<>>]
    /\ log_row = [t \in DiscThreads |-> 0]
    /\ scraping_log = <<>>
    /\ catalog = <<>>
    /\ running = [j \in Jobs |-> FALSE]
    /\ enrich_sel = {}
    /\ now = StartDay
    /\ served = <<>>
    /\ details = NoDetails
    /\ attempts = [t \in DiscThreads |-> <<>>]
    /\ closes = <<>>
    /\ title = <<>>
    /\ parsed = NoParse

\* The extraction of a listing calls _parse_brand_model on its title, any
\* title of Titles.
TitleInit ==
    /\ locked = FALSE
    /\ session = NoSession
    /\ pages_made = 0
    /\ pc = [t \in Threads |-> IF t = "main" THEN "serving" ELSE "idle"]
    /\ car_listings = [t \in DiscThreads |-> <<>>]
    /\ cars = [t \in DiscThreads |-> <<>>]
    /\ newly_added = [t \in DiscThreads |-> <<>>]
    /\ log_row = [t \in DiscThreads |-> 0]
    /\ scraping_log = <<>>
    /\ catalog = <<>>
    /\ running = [j \in Jobs |-> FALSE]
    /\ enrich_sel = {}
    /\ scheduler_running = TRUE
    /\ now = 0
    /\ served = <<>>
    /\ details = NoDetails
    /\ attempts = [t \in DiscThreads |-> <<>>]
    /\ closes = <<>>
    /\ title \in Titles
    /\ parsed = NoParse

\* An enrichment has opened a detail page, any page of DetailPages.
DetailInit ==
    /\ locked = FALSE
    /\ session = NoSession
    /\ pages_made = 0
    /\ pc = [t \in Threads |-> IF t = "main" THEN "serving" ELSE "idle"]
    /\ car_listings = [t \in DiscThreads |-> <<>>]
    /\ cars = [t \in DiscThreads |-> <<>>]
    /\ newly_added = [t \in DiscThreads |-> <<>>]
    /\ log_row = [t \in DiscThreads |-> 0]
    /\ scraping_log = <<>>
    /\ catalog = <<>>
    /\ running = [j \in Jobs |-> j = "enrich"]
    /\ enrich_sel = {}
    /\ scheduler_running = TRUE
    /\ now = StartDay
    /\ served \in DetailPages
    /\ details = NoDetails
    /\ attempts = [t \in DiscThreads |-> <<>>]
    /\ closes = <<>>
    /\ title = <<>>
    /\ parsed = NoParse

\* A first discovery run has navigated and waits for the links of the page
\* the site serves, any page of AnyPages.
PageInit ==
    /\ locked = TRUE
    /\ session = [NoSession EXCEPT !.playwright = TRUE, !.browser = TRUE,
                                   !.context = TRUE, !.page = 1]
    /\ pages_made = 1
    /\ pc = [t \in Threads |-> IF t = "main" THEN "serving"
                               ELSE IF t = "sched" THEN "collect" ELSE "idle"]
    /\ car_listings = [t \in DiscThreads |-> <<>>]
    /\ cars = [t \in DiscThreads |-> <<>>]
    /\ newly_added = [t \in DiscThreads |-> <<>>]
    /\ log_row = [t \in DiscThreads |-> IF t = "sched" THEN 1 ELSE 0]
    /\ scraping_log = <<NewLogRow>>
    /\ catalog = <<>>
    /\ running = [j \in Jobs |-> FALSE]
    /\ enrich_sel = {}
    /\ scheduler_running = TRUE
    /\ now = 0
    /\ served \in AnyPages
    /\ details = NoDetails
    /\ attempts = [t \in DiscThreads |-> <<>>]
    /\ closes = <<>>
    /\ title = <<>>
    /\ parsed = NoParse

ExpiredInit == StartOn(ExpiredTables)

\* The thread's locals when its run is over.
Forget(t) ==
    /\ car_listings' = [car_listings EXCEPT ![t] = <<>>]
    /\ cars' = [cars EXCEPT ![t] = <<>>]
    /\ newly_added' = [newly_added EXCEPT ![t] = <<>>]
    /\ log_row' = [log_row EXCEPT ![t] = 0]
    /\ attempts' = [attempts EXCEPT ![t] = <<>>]

(***************************************************************************)
(* Dispatch of a discovery run.                                            *)
(***************************************************************************)
\* scrape_and_store_cars, lines 702-713: the ScrapingLog row is committed and
\* scrape_listings is called, which waits for the session.
BeginScrape(t) ==
    /\ pc[t] = "idle"
    /\ Len(scraping_log) < MaxRuns
    /\ scraping_log' = Append(scraping_log, NewLogRow)
    /\ log_row' = [log_row EXCEPT ![t] = Len(scraping_log) + 1]
    /\ pc' = [pc EXCEPT ![t] = "page_wait"]
    /\ UNCHANGED <<locked, session, pages_made, car_listings, cars,
                   newly_added, catalog, running, enrich_sel,
                   scheduler_running, now,
                   title, parsed, served, details, attempts, closes>>

\* A tick of job fast_scrape (max_instances=1): dispatched only when no
\* instance of the job is in flight, skipped otherwise.
FastScrapeTick ==
    /\ scheduler_running
    /\ BeginScrape("sched")

\* POST /api/trigger-scrape: the request thread calls scrape_and_store_cars.
TriggerScrape ==
    /\ pc["main"] = "serving"
    /\ BeginScrape("manual")

(***************************************************************************)
(* The session lock.                                                       *)
(***************************************************************************)
\* Where a thread is after self._lock.acquire() returned.
AfterAcquire(at) ==
    CASE at = "page_wait" -> "in_page"
      [] at = "reset_wait" -> "in_reset"
      [] at = "exit_wait" -> "in_shutdown"

\* page(), reset() and shutdown() take the lock.
LockAcquire(t) ==
    /\ pc[t] \in {"page_wait", "reset_wait", "exit_wait"}
    /\ LockFree
    /\ locked' = TRUE
    /\ pc' = [pc EXCEPT ![t] = AfterAcquire(pc[t])]
    /\ UNCHANGED <<session, pages_made, car_listings, cars, newly_added,
                   log_row, scraping_log, catalog, running, enrich_sel,
                   scheduler_running, now,
                   title, parsed, served, details, attempts, closes>>

\* The body of reset() or shutdown() under the lock, and the release. A
\* thread back from reset() is still inside its page() block.
LockedCall(t, faults) ==
    /\ pc[t] \in {"in_reset", "in_shutdown"}
    /\ locked' = FALSE
    /\ \E failing \in SUBSET faults :
        IF pc[t] = "in_reset"
        THEN /\ session' = ResetBody(session, pages_made + 1, failing)
             /\ pages_made' = IF session'.page # session.page
                              THEN pages_made + 1 ELSE pages_made
             /\ closes' = ResetCloses(session, failing)
             /\ pc' = [pc EXCEPT ![t] =
                         IF ResetRaises(session, failing) THEN "sync"
                         ELSE "leave_page"]
        ELSE /\ session' = ShutdownBody(session)
             /\ pages_made' = pages_made
             /\ closes' = ShutdownCloses(session, failing)
             /\ pc' = [pc EXCEPT ![t] = "exited"]
    /\ UNCHANGED <<car_listings, cars, newly_added, log_row, scraping_log,
                   catalog, running, enrich_sel, scheduler_running, now,
                   title, parsed, served, details, attempts>>

\* The page() block is left (finally: self._lock.release()) and
\* scrape_listings returns cars.
LeavePage(t) ==
    /\ pc[t] = "leave_page"
    /\ locked' = FALSE
    /\ pc' = [pc EXCEPT ![t] = "sync"]
    /\ UNCHANGED <<session, pages_made, car_listings, cars, newly_added,
                   log_row, scraping_log, catalog, running, enrich_sel,
                   scheduler_running, now,
                   title, parsed, served, details, attempts, closes>>

(***************************************************************************)
(* scrape_listings, inside the page() block.                               *)
(***************************************************************************)
NavOutcomes == {"ok", "timeout", "error"}

\* _ensure_started and page.goto. A launch that raises leaves the block
\* (the lock is released) and scrape_listings returns the empty list; a
\* navigation fault calls reset() from inside the block.
Navigate(t, launches) ==
    /\ pc[t] = "in_page"
    /\ \E made \in launches, nav \in NavOutcomes :
        LET s == EnsureStarted(session, made, pages_made + 1)
        IN  /\ session' = s
            /\ pages_made' = IF s.page # session.page THEN pages_made + 1
                             ELSE pages_made
            /\ IF EnsureStartedRaises(session, made)
               THEN /\ locked' = FALSE
                    /\ pc' = [pc EXCEPT ![t] = "sync"]
               ELSE /\ locked' = locked
                    /\ pc' = [pc EXCEPT ![t] =
                                IF s.page = None \/ nav # "ok"
                                THEN "reset_wait" ELSE "render"]
    /\ UNCHANGED <<car_listings, cars, newly_added, log_row, scraping_log,
                   catalog, running, enrich_sel, scheduler_running, now,
                   title, parsed, served, details, attempts, closes>>

RenderOutcomes == {"ok", "timeout", "exception"}

\* The cookie_selectors of lines 269-274.
COOKIE_SELECTORS == 4

\* What a selector meets: no visible button ("none"), a visible button whose
\* click succeeds ("click"), or a call that raises ("error"; caught at line
\* 285, the loop goes on).
ConsentOutcomes == {"none", "click", "error"}

\* Every dialog: what each of the selectors meets.
AnyConsents == [1 .. COOKIE_SELECTORS -> ConsentOutcomes]

\* The page shows no consent button: the only dialog of the specifications
\* that do not look at the consent.
NoConsents == {[k \in 1 .. COOKIE_SELECTORS |-> "none"]}

\* A loop without the break of line 283.
ConsentTriedAll(dialog) ==
    [k \in 1 .. COOKIE_SELECTORS |-> [selector |-> k, outcome |-> dialog[k]]]

\* Lines 276-286: the selectors tried, in order, up to the first click.
ConsentTried(dialog) ==
    LET clicks == {k \in 1 .. COOKIE_SELECTORS : dialog[k] = "click"}
        last == IF clicks = {} THEN COOKIE_SELECTORS
                ELSE CHOOSE k \in clicks : \A j \in clicks : k <= j
    IN  [k \in 1 .. last |-> [selector |-> k, outcome |-> dialog[k]]]

\* The consent dialog (lines 268-287; skipped when the flag is set) and the
\* wait for the listing grid; dialogs are the dialogs the page may show.
Render(t, dialogs) ==
    /\ pc[t] = "render"
    /\ \E dialog \in dialogs, grid \in RenderOutcomes :
        LET tried == IF session.cookies_accepted THEN <<>>
                     ELSE ConsentTried(dialog)
        IN  /\ attempts' = [attempts EXCEPT ![t] = tried]
            /\ session' = [session EXCEPT !.cookies_accepted =
                    @ \/ \E k \in 1 .. Len(tried) : tried[k].outcome = "click"]
            /\ IF grid = "exception"
               THEN /\ locked' = FALSE
                    /\ pc' = [pc EXCEPT ![t] = "sync"]
               ELSE /\ locked' = locked
                    /\ pc' = [pc EXCEPT ![t] =
                                IF grid = "timeout" THEN "reset_wait"
                                ELSE "collect"]
    /\ UNCHANGED <<pages_made, car_listings, cars, newly_added, log_row,
                   scraping_log, catalog, running, enrich_sel,
                   scheduler_running, now,
                   title, parsed, served, details, closes>>

\* The links are collected and the candidates extracted; pages are the
\* pages the site may serve.
Collect(t, pages, profiles) ==
    /\ pc[t] = "collect"
    /\ \E links \in pages, prof \in profiles, bad \in 0 .. MaxErrIdx :
        LET found == CollectCandidates(links)
        IN  /\ car_listings' = [car_listings EXCEPT ![t] = found]
            /\ IF found = <<>>
               THEN /\ cars' = cars
                    /\ pc' = [pc EXCEPT ![t] = "reset_wait"]
               ELSE /\ cars' = [cars EXCEPT ![t] =
                            ExtractCars(found, FAST_SCRAPE_MAX_CARS, bad, prof)]
                    /\ pc' = [pc EXCEPT ![t] = "leave_page"]
    /\ UNCHANGED <<locked, session, pages_made, newly_added, log_row,
                   scraping_log, catalog, running, enrich_sel,
                   scheduler_running, now,
                   title, parsed, served, details, attempts, closes>>

(***************************************************************************)
(* scrape_and_store_cars, after scrape_listings returned.                  *)
(***************************************************************************)
SetRow(log, k, row) == [log EXCEPT ![k] = row]

\* Lines 715-740: the loop reads the rows and plans the inserts and updates.
SyncRead(t) ==
    /\ pc[t] = "sync"
    /\ newly_added' = [newly_added EXCEPT ![t] = NewlyAdded(cars[t], catalog)]
    /\ pc' = [pc EXCEPT ![t] = "commit"]
    /\ UNCHANGED <<locked, session, pages_made, car_listings, cars, log_row,
                   scraping_log, catalog, running, enrich_sel,
                   scheduler_running, now,
                   title, parsed, served, details, attempts, closes>>

\* Lines 742-753: the deactivation step and the commit of the run's changes;
\* a failed commit rolls them back and the handler of lines 769-774 records
\* the failure.
SyncCommit(t) ==
    /\ pc[t] = "commit"
    /\ LET row == scraping_log[log_row[t]]
       IN  IF CommitConflict(catalog, cars[t], Range(newly_added[t]))
           THEN /\ catalog' = catalog
                /\ scraping_log' = SetRow(scraping_log, log_row[t],
                        [row EXCEPT !.status = "failed", !.completed = TRUE])
                /\ pc' = [pc EXCEPT ![t] = "idle"]
                /\ Forget(t)
           ELSE /\ catalog' = SyncResult(catalog, cars[t],
                                         Range(newly_added[t]), now)
                /\ scraping_log' = SetRow(scraping_log, log_row[t],
                        [row EXCEPT !.cars_found = Len(cars[t])])
                /\ pc' = [pc EXCEPT ![t] = "log_success"]
                /\ UNCHANGED <<car_listings, cars, newly_added, log_row, attempts>>
    /\ UNCHANGED <<locked, session, pages_made, running, enrich_sel,
                   scheduler_running, now,
                   title, parsed, served, details, closes>>

\* A completion that counts every listing of the batch as updated.
LogSuccessCountsAll(t) ==
    /\ pc[t] = "log_success"
    /\ scraping_log' = SetRow(scraping_log, log_row[t],
            [scraping_log[log_row[t]] EXCEPT
                !.status = "success", !.completed = TRUE,
                !.cars_added = Len(newly_added[t]),
                !.cars_updated = Len(cars[t])])
    /\ IF newly_added[t] # <<>>
       THEN /\ pc' = [pc EXCEPT ![t] = "enrich"]
            /\ UNCHANGED <<car_listings, cars, newly_added, log_row, attempts>>
       ELSE /\ pc' = [pc EXCEPT ![t] = "idle"]
            /\ Forget(t)
    /\ UNCHANGED <<locked, session, pages_made, catalog, running, enrich_sel,
                   scheduler_running, now,
                   title, parsed, served, details, closes>>

\* Lines 755-759: the run's row is completed.
LogSuccess(t) ==
    /\ pc[t] = "log_success"
    /\ scraping_log' = SetRow(scraping_log, log_row[t],
            [scraping_log[log_row[t]] EXCEPT
                !.status = "success", !.completed = TRUE,
                !.cars_added = Len(newly_added[t]),
                !.cars_updated = Len(cars[t]) - Len(newly_added[t])])
    /\ IF newly_added[t] # <<>>
       THEN /\ pc' = [pc EXCEPT ![t] = "enrich"]
            /\ UNCHANGED <<car_listings, cars, newly_added, log_row, attempts>>
       ELSE /\ pc' = [pc EXCEPT ![t] = "idle"]
            /\ Forget(t)
    /\ UNCHANGED <<locked, session, pages_made, catalog, running, enrich_sel,
                   scheduler_running, now,
                   title, parsed, served, details, closes>>

(***************************************************************************)
(* Enrichment.                                                             *)
(***************************************************************************)
\* What a run's detail pages yield (the same for all of its cars).
DetailResults == [images : {0, MaxGallery}, posted_at : {None, 1}]

\* Every gallery size with and without a posted date.
GalleryResults == [images : 0 .. MaxGallery, posted_at : {None, 1}]

\* A priority enrichment without the cut to max_items.
LimitedIdsUncut(ids, max_items) == Range(ids)

\* list(dict.fromkeys(listing_ids))[:max_items]
LimitedIds(ids, max_items) ==
    Range(SubSeq(ids, 1, Min(Len(ids), max_items)))

\* priority_enrich_latest, lines 884-895.
PriorityUpdate(car, d) ==
    [car EXCEPT
        !.image_urls = IF d.images # 0 /\ car.image_urls <= 1
                       THEN d.images ELSE @,
        !.posted_at = IF d.posted_at # None THEN d.posted_at ELSE @]

\* An enrichment that also writes the price, which the detail page does not
\* give.
BackgroundUpdateClearsPrice(car, loaded, d) ==
    [car EXCEPT
        !.image_urls = IF d.images # 0 /\ d.images > Max(loaded.image_urls, 1)
                       THEN d.images ELSE @,
        !.posted_at = IF d.posted_at # None /\ loaded.posted_at # d.posted_at
                      THEN d.posted_at ELSE @,
        !.price = None]

\* enrich_cars_with_images, lines 823-837; loaded is the row as selected.
BackgroundUpdate(car, loaded, d) ==
    [car EXCEPT
        !.image_urls = IF d.images # 0 /\ d.images > Max(loaded.image_urls, 1)
                       THEN d.images ELSE @,
        !.posted_at = IF d.posted_at # None /\ loaded.posted_at # d.posted_at
                      THEN d.posted_at ELSE @]

\* The priority enrichment a discovery run calls for its new listings
\* (lines 763-767); a failure of the run rolls its changes back.
PriorityEnrich(t, results) ==
    /\ pc[t] = "enrich"
    /\ \E d \in results, ok \in BOOLEAN :
        LET ids == LimitedIds(newly_added[t], PRIORITY_MAX_ITEMS)
        IN  catalog' = IF ok
                       THEN [k \in 1 .. Len(catalog) |->
                                IF catalog[k].listing_id \in ids
                                THEN PriorityUpdate(catalog[k], d)
                                ELSE catalog[k]]
                       ELSE catalog
    /\ pc' = [pc EXCEPT ![t] = "idle"]
    /\ Forget(t)
    /\ UNCHANGED <<locked, session, pages_made, scraping_log, running,
                   enrich_sel, scheduler_running, now,
                   title, parsed, served, details, closes>>

\* ORDER BY first_seen_at DESC LIMIT n over the rows `rows` of cat: the sets
\* of rows the query may return. Rows of equal first_seen_at come in any
\* order, so the rows level with the last place are interchangeable.
FirstBySeen(cat, rows, n) ==
    IF Cardinality(rows) <= n THEN {rows}
    ELSE LET Ahead(k) == {j \in rows :
                            cat[j].first_seen_at > cat[k].first_seen_at}
             Level(k) == {j \in rows :
                            cat[j].first_seen_at >= cat[k].first_seen_at}
             sure == {k \in rows : Cardinality(Level(k)) <= n}
             maybe == {k \in rows \ sure : Cardinality(Ahead(k)) < n}
         IN  {sure \cup M :
                M \in {X \in SUBSET maybe :
                         Cardinality(X) = n - Cardinality(sure)}}

\* The rows enrich_cars_with_images selects: of the first 200 active rows by
\* first_seen_at (latest first), the first 20 with at most one image.
EnrichSelections(cat) ==
    LET act == {k \in 1 .. Len(cat) : cat[k].is_active}
        Need(S) == {k \in S : cat[k].image_urls <= 1}
    IN  UNION {FirstBySeen(cat, Need(S), ENRICH_BATCH) :
                  S \in FirstBySeen(cat, act, ENRICH_CANDIDATE_LIMIT)}

\* The selected rows as loaded.
Loaded(cat, rows) ==
    {[listing_id |-> cat[k].listing_id, image_urls |-> cat[k].image_urls,
      posted_at |-> cat[k].posted_at] : k \in rows}

\* The cars table after the enrichment job's commit.
EnrichResult(cat, sel, d) ==
    [k \in 1 .. Len(cat) |->
        IF \E l \in sel : l.listing_id = cat[k].listing_id
        THEN BackgroundUpdate(cat[k],
                CHOOSE l \in sel : l.listing_id = cat[k].listing_id, d)
        ELSE cat[k]]

\* A delete whose cutoff was computed once, when the table was created.
CleanupResultFixedCutoff(cat, t) ==
    SelectSeq(cat, LAMBDA c :
        ~(~c.is_active /\ c.last_seen_at < StartDay - RETENTION_DAYS - 1))

\* A delete whose cutoff test is not strict.
CleanupResultInclusive(cat, t) ==
    SelectSeq(cat, LAMBDA c :
        ~(~c.is_active /\ c.last_seen_at <= t - RETENTION_DAYS))

\* cleanup_inactive_cars: the delete.
CleanupResult(cat, t) ==
    SelectSeq(cat, LAMBDA c :
        ~(~c.is_active /\ c.last_seen_at < t - RETENTION_DAYS))

(***************************************************************************)
(* The jobs priority_enrich, enrich and cleanup of the scheduler.          *)
(***************************************************************************)
\* A tick of job j (max_instances=1): dispatched only when no instance of
\* the job is in flight. The enrichment job selects its rows.
JobStart(j) ==
    /\ scheduler_running
    /\ ~running[j]
    /\ running' = [running EXCEPT ![j] = TRUE]
    /\ IF j = "enrich"
       THEN \E P \in EnrichSelections(catalog) :
                enrich_sel' = Loaded(catalog, P)
       ELSE enrich_sel' = enrich_sel
    /\ UNCHANGED <<locked, session, pages_made, pc, car_listings, cars,
                   newly_added, log_row, scraping_log, catalog,
                   scheduler_running, now,
                   title, parsed, served, details, attempts, closes>>

\* A job that works on the shared page: its instance ends only while no
\* one holds the session.
JobFinishOnSharedPage(j, results) ==
    /\ running[j]
    /\ ~locked
    /\ running' = [running EXCEPT ![j] = FALSE]
    /\ \E d \in results, ok \in BOOLEAN :
        catalog' =
            CASE j = "priority_enrich" -> catalog
              [] j = "enrich" ->
                    IF ok /\ \A l \in enrich_sel : HasRow(catalog, l.listing_id)
                    THEN EnrichResult(catalog, enrich_sel, d)
                    ELSE catalog
              [] j = "cleanup" -> IF ok THEN CleanupResult(catalog, now)
                                  ELSE catalog
    /\ enrich_sel' = IF j = "enrich" THEN {} ELSE enrich_sel
    /\ UNCHANGED <<locked, session, pages_made, pc, car_listings, cars,
                   newly_added, log_row, scraping_log, scheduler_running, now,
                   title, parsed, served, details, attempts, closes>>

\* The instance of job j ends; results are what the detail pages may
\* yield. priority_enrich is called without ids and
\* returns at once; enrich commits its updates, or rolls back when the job
\* fails or a selected row is gone; cleanup deletes.
JobFinish(j, results) ==
    /\ running[j]
    /\ running' = [running EXCEPT ![j] = FALSE]
    /\ \E d \in results, ok \in BOOLEAN :
        catalog' =
            CASE j = "priority_enrich" -> catalog
              [] j = "enrich" ->
                    IF ok /\ \A l \in enrich_sel : HasRow(catalog, l.listing_id)
                    THEN EnrichResult(catalog, enrich_sel, d)
                    ELSE catalog
              [] j = "cleanup" -> IF ok THEN CleanupResult(catalog, now)
                                  ELSE catalog
    /\ enrich_sel' = IF j = "enrich" THEN {} ELSE enrich_sel
    /\ UNCHANGED <<locked, session, pages_made, pc, car_listings, cars,
                   newly_added, log_row, scraping_log, scheduler_running, now,
                   title, parsed, served, details, attempts, closes>>

\* A day passes.
Tick ==
    /\ now < StartDay + MaxTicks
    /\ now' = now + 1
    /\ UNCHANGED <<locked, session, pages_made, pc, car_listings, cars,
                   newly_added, log_row, scraping_log, catalog, running,
                   enrich_sel, scheduler_running,
                   title, parsed, served, details, attempts, closes>>

(***************************************************************************)
(* Process exit.                                                           *)
(***************************************************************************)
\* The atexit handlers run last registered first: the scheduler is shut
\* down (line 160), then playwright_singleton.shutdown is called (line 122).
Exit ==
    /\ pc["main"] = "serving"
    /\ scheduler_running' = FALSE
    /\ pc' = [pc EXCEPT !["main"] = "exit_wait"]
    /\ UNCHANGED <<locked, session, pages_made, car_listings, cars,
                   newly_added, log_row, scraping_log, catalog, running,
                   enrich_sel, now, title, parsed, served, details, attempts, closes>>

(***************************************************************************)
(* The specifications.                                                     *)
(***************************************************************************)
\* A step of a discovery run; the launches, pages, listing profiles
\* and detail results are those the specification draws from.
DiscStep(t, launches, pages, profiles, results) ==
    \/ Navigate(t, launches)
    \/ Render(t, NoConsents)
    \/ Collect(t, pages, profiles)
    \/ LeavePage(t)
    \/ SyncRead(t)
    \/ SyncCommit(t)
    \/ LogSuccess(t)
    \/ PriorityEnrich(t, results)

\* Spec: the discovery runs of the scheduler and of the manual trigger, over
\* small pages, and the process exit.
Next ==
    \/ FastScrapeTick
    \/ TriggerScrape
    \/ \E t \in Threads : LockAcquire(t)
    \/ \E t \in Threads : LockedCall(t, {})
    \/ \E t \in DiscThreads :
          DiscStep(t, LaunchOutcomes, Pages(SmallSizes), {FullProfile},
                   DetailResults)
    \/ Exit

Spec == Init /\ [][Next]_vars

\* SyncSpec: the discovery runs of the scheduler over pages around the
\* deactivation threshold; every launch succeeds.
SyncNext ==
    \/ FastScrapeTick
    \/ LockAcquire("sched")
    \/ DiscStep("sched", {4}, Pages(SyncSizes), {FullProfile},
                {[images |-> MaxGallery, posted_at |-> 1]})

SyncSpec == Init /\ [][SyncNext]_vars

\* JobSpec: the discovery runs of the scheduler and the jobs enrich and
\* cleanup, over pages that list listing 1, on a stored table and with the
\* clock advancing.
JobNext ==
    \/ FastScrapeTick
    \/ LockAcquire("sched")
    \/ DiscStep("sched", {4}, SinglePages, Profiles, GalleryResults)
    \/ \E j \in TableJobs : JobStart(j)
    \/ \E j \in TableJobs : JobFinish(j, GalleryResults)
    \/ Tick

JobSpec == StoredInit /\ [][JobNext]_vars

\* RaceSpec: the discovery runs of the scheduler and of the manual trigger
\* and the jobs enrich and cleanup, all interleaved, on a table that is
\* empty or holds an expired row;
\* every launch succeeds and every detail page yields the full gallery.
RaceNext ==
    \/ FastScrapeTick
    \/ TriggerScrape
    \/ \E t \in DiscThreads : LockAcquire(t)
    \/ \E t \in DiscThreads :
          DiscStep(t, {4}, RacePages, {FullProfile},
                   {[images |-> MaxGallery, posted_at |-> 1]})
    \/ \E j \in TableJobs : JobStart(j)
    \/ \E j \in TableJobs :
          JobFinish(j, {[images |-> MaxGallery, posted_at |-> 1]})

RaceSpec == ExpiredInit /\ [][RaceNext]_vars

\* SelectSpec: the enrichment job on the tables of LargeTables; every detail
\* page yields the full gallery.
SelectNext ==
    \/ JobStart("enrich")
    \/ JobFinish("enrich", {[images |-> MaxGallery, posted_at |-> 1]})

SelectSpec == LargeInit /\ [][SelectNext]_vars

\* scrape_car_details on the served detail page: the elements before an
\* exception are processed (all of them when none is raised), the metadata
\* texts yield a posted date or none.
ScrapeCarDetails ==
    /\ ~details.returned
    /\ \E n \in 0 .. Len(served), p \in {None, 1} :
          details' = [images |-> DetailImages(SubSeq(served, 1, n)),
                      posted_at |-> IF n = Len(served) THEN p ELSE None,
                      returned |-> TRUE]
    /\ UNCHANGED <<locked, session, pages_made, pc, car_listings, cars,
                   newly_added, log_row, scraping_log, catalog, running,
                   enrich_sel, scheduler_running, now,
                   title, parsed, served, attempts, closes>>

\* DetailSpec: scrape_car_details over the pages of DetailPages.
DetailNext == ScrapeCarDetails

DetailSpec == DetailInit /\ [][DetailNext]_vars

\* FairSelectSpec: the enrichment job fires again and again (an interval
\* job) on a table of rows without a gallery; the detail pages of a run
\* yield no image or the full gallery.
SparseResults ==
    {[images |-> 0, posted_at |-> None],
     [images |-> MaxGallery, posted_at |-> 1]}

FairSelectNext ==
    \/ JobStart("enrich")
    \/ JobFinish("enrich", SparseResults)

FairSelectSpec ==
    /\ NeedyInit
    /\ [][FairSelectNext]_vars
    /\ WF_vars(JobStart("enrich"))
    /\ WF_vars(JobFinish("enrich", SparseResults))

\* ConsentSpec: the discovery runs of the scheduler over every consent
\* dialog, and the process exit; every launch succeeds, the page lists
\* listing 1.
ConsentNext ==
    \/ FastScrapeTick
    \/ \E t \in {"sched", "main"} : LockAcquire(t)
    \/ LockedCall("main", {})
    \/ Navigate("sched", {4})
    \/ Render("sched", AnyConsents)
    \/ Collect("sched", SinglePages, {FullProfile})
    \/ LeavePage("sched")
    \/ SyncRead("sched")
    \/ SyncCommit("sched")
    \/ LogSuccess("sched")
    \/ PriorityEnrich("sched", {[images |-> MaxGallery, posted_at |-> 1]})
    \/ Exit

ConsentSpec == Init /\ [][ConsentNext]_vars

\* CallSpec: one call of reset() or shutdown() on the sessions of Sessions;
\* any close and the creation of the new page may raise.
CallNext ==
    \/ \E t \in {"sched", "main"} : LockAcquire(t)
    \/ \E t \in {"sched", "main"} : LockedCall(t, Faults)

CallSpec == CallInit /\ [][CallNext]_vars

\* PageSpec: the link collection and the extraction of a run, over every
\* page of AnyPages.
PageNext ==
    \/ Collect("sched", {served}, {FullProfile})
    \/ LeavePage("sched")

PageSpec == PageInit /\ [][PageNext]_vars

\* CleanupSpec: the discovery runs of the scheduler over a page above the
\* deactivation threshold, and the cleanup job, on a table whose rows an
\* earlier run saw more than RETENTION_DAYS days ago. The clock advances,
\* the interval trigger of the cleanup job fires again and again, and the
\* delete of a run commits again and again (the database does not fail
\* forever).
SeenTables ==
    {[k \in 1 .. FAST_SCRAPE_MAX_CARS |->
        [listing_id |-> k, is_active |-> TRUE, price |-> 1, posted_at |-> 1,
         image_urls |-> 1, first_seen_at |-> 0, last_seen_at |-> seen]] :
            seen \in {0, 1}}

SeenInit == StartOn(SeenTables)

CleanupPages ==
    {PageLinks(n, "none") :
        n \in {DEACTIVATION_THRESHOLD + 1, FAST_SCRAPE_MAX_CARS}}

CleanupCommits ==
    /\ JobFinish("cleanup", GalleryResults)
    /\ catalog' = CleanupResult(catalog, now)

CleanupNext ==
    \/ FastScrapeTick
    \/ LockAcquire("sched")
    \/ DiscStep("sched", {4}, CleanupPages, {FullProfile},
                {[images |-> MaxGallery, posted_at |-> 1]})
    \/ JobStart("cleanup")
    \/ JobFinish("cleanup", GalleryResults)
    \/ Tick

CleanupSpec ==
    /\ SeenInit
    /\ [][CleanupNext]_vars
    /\ WF_vars(Tick)
    /\ WF_vars(JobStart("cleanup"))
    /\ SF_vars(CleanupCommits)

\* _parse_brand_model returns for the title.
ParseTitle ==
    /\ ~parsed.returned
    /\ parsed' = [brand |-> ParseBrandModel(title).brand,
                  model |-> ParseBrandModel(title).model,
                  returned |-> TRUE]
    /\ UNCHANGED <<locked, session, pages_made, pc, car_listings, cars,
                   newly_added, log_row, scraping_log, catalog, running,
                   enrich_sel, scheduler_running, now, title, served, details,
                   attempts, closes>>

\* BrandSpec: _parse_brand_model over the titles of Titles.
BrandNext == ParseTitle

BrandSpec == TitleInit /\ [][BrandNext]_vars

\* FairSpec: Spec with every thread that can take a step taking it, every
\* waiter getting the lock if it is free again and again, and the interval
\* trigger firing.
Fairness ==
    /\ WF_vars(FastScrapeTick)
    /\ \A t \in Threads : SF_vars(LockAcquire(t)) /\ WF_vars(LockedCall(t, {}))
    /\ \A t \in DiscThreads :
          WF_vars(DiscStep(t, LaunchOutcomes, Pages(SmallSizes), {FullProfile},
                           DetailResults))

FairSpec == Init /\ [][Next]_vars /\ Fairness

(***************************************************************************)
(* Properties.                                                             *)
(***************************************************************************)
\* The step in which thread t's synchronization commits.
SyncCommits(t) == pc[t] = "commit" /\ pc'[t] = "log_success"

\* The rows of cat that are active.
ActiveRows(cat) == {k \in 1 .. Len(cat) : cat[k].is_active}

\* C1: a synchronization whose batch holds 10 or fewer listings (the empty
\* batch included) deactivates no row: every row active before the commit
\* is active after it.
C1_SmallBatchDeactivatesNothing ==
    [][\A t \in DiscThreads :
          (SyncCommits(t) /\ Len(cars[t]) <= 10) =>
              /\ Len(catalog') >= Len(catalog)
              /\ \A k \in ActiveRows(catalog) :
                    /\ catalog'[k].listing_id = catalog[k].listing_id
                    /\ catalog'[k].is_active]_vars

\* C1 witness: a batch of exactly 10 has been committed and a row outside
\* the batch is still active.
C1_Witness ==
    /\ pc["sched"] = "log_success"
    /\ Len(cars["sched"]) = 10
    /\ ActiveIds(catalog) \ ListingIds(cars["sched"]) # {}

\* C2: a discovery run deactivates no active row whose listing id was among
\* the unique candidates found on the page, whether or not the candidate
\* made it into the batch: every candidate active before the commit is
\* active after it.
C2_CandidatesStayActive ==
    [][\A t \in DiscThreads :
          SyncCommits(t) =>
              \A i \in Range(car_listings[t]) :
                  i \in ActiveIds(catalog) => i \in ActiveIds(catalog')]_vars

\* C3: a run that hit a fault and went to reset the session comes back from
\* scrape_listings with the empty list.
C3_FaultReturnsEmpty ==
    \A t \in DiscThreads :
        [](pc[t] = "reset_wait" => <>(pc[t] = "sync" /\ cars[t] = <<>>))

\* C4: the session lock, once taken, is released again.
C4_LockReleased == [](locked => <>(~locked))

\* The positions of a thread inside a page() block, a reset() body or a
\* shutdown() body.
InsideSession ==
    {"in_page", "render", "collect", "reset_wait", "leave_page",
     "in_reset", "in_shutdown"}

\* C5: at most one thread at a time is inside a page() block, a reset()
\* body or a shutdown() body, and the lock is held while one is.
C5_OneThreadInSession ==
    /\ Cardinality({t \in Threads : pc[t] \in InsideSession}) <= 1
    /\ (\E t \in Threads : pc[t] \in InsideSession) => locked

\* C5 witness: the scheduler's run and the manual run overlap, one inside
\* its page() block and the other waiting for the session.
C5_Witness ==
    \E t, u \in DiscThreads :
        /\ t # u
        /\ pc[t] \in {"in_page", "render", "collect"}
        /\ pc[u] = "page_wait"

\* C6: at most one discovery run is in flight at any moment.
C6_OneDiscoveryInFlight ==
    Cardinality({t \in DiscThreads : pc[t] # "idle"}) <= 1

\* C7: a scheduled run that hit a fault ends, so that the next tick of the
\* job is dispatched and not skipped.
C7_FaultedRunEnds ==
    [](pc["sched"] = "reset_wait" => <>(pc["sched"] = "idle"))

\* Row k of the scraping log exists and is completed with a final status.
RowCompleted(k) ==
    /\ Len(scraping_log) >= k
    /\ scraping_log[k].completed
    /\ scraping_log[k].status \in {"success", "failed"}

\* C8: every row a discovery run created in the scraping log is in the end
\* completed with status success or failed.
C8_RunRowCompleted ==
    \A k \in 1 .. MaxRuns :
        [](Len(scraping_log) >= k => <>RowCompleted(k))

\* C9: after a synchronization of a batch of more than 10 listings commits,
\* the active rows are exactly the rows of the batch's listing ids, and
\* every row that was active and is absent from the batch is kept, inactive.
C9_ActiveSetIsBatch ==
    [][\A t \in DiscThreads :
          (SyncCommits(t) /\ Len(cars[t]) > 10) =>
              /\ ActiveIds(catalog') = ListingIds(cars[t])
              /\ \A k \in ActiveRows(catalog) :
                    catalog[k].listing_id \notin ListingIds(cars[t]) =>
                        /\ catalog'[k].listing_id = catalog[k].listing_id
                        /\ ~catalog'[k].is_active]_vars

\* C9 witness: the second run's batch of more than 10 has been committed
\* and a row outside the batch is inactive.
C9_Witness ==
    /\ pc["sched"] = "log_success"
    /\ Len(scraping_log) = 2
    /\ Len(cars["sched"]) > 10
    /\ \E k \in 1 .. Len(catalog) :
          /\ ~catalog[k].is_active
          /\ catalog[k].listing_id \notin ListingIds(cars["sched"])

\* The table is as a synchronization of the batch leaves it.
SyncedWith(cat, batch) ==
    /\ ListingIds(batch) \subseteq ActiveIds(cat)
    /\ Len(batch) > 10 => ActiveIds(cat) = ListingIds(batch)

\* C10: a synchronization of a batch on the table a synchronization of the
\* same batch left inserts nothing, leaves exactly one row per listing id of
\* the batch, and leaves the row count and the active count unchanged.
C10_RepeatedSyncIdempotent ==
    [][\A t \in DiscThreads :
          (SyncCommits(t) /\ SyncedWith(catalog, cars[t])) =>
              /\ newly_added[t] = <<>>
              /\ Len(catalog') = Len(catalog)
              /\ Cardinality(ActiveRows(catalog')) =
                     Cardinality(ActiveRows(catalog))
              /\ \A i \in ListingIds(cars[t]) :
                    Cardinality(Rows(catalog', i)) = 1]_vars

\* C10 witness: the second run has committed a batch of more than 10, all of
\* it rows the first run inserted, and the table holds the batch and no more.
C10_Witness ==
    /\ pc["sched"] = "log_success"
    /\ Len(scraping_log) = 2
    /\ newly_added["sched"] = <<>>
    /\ Len(cars["sched"]) > 10
    /\ Len(catalog) = Len(cars["sched"])
    /\ ActiveIds(catalog) = ListingIds(cars["sched"])

\* C11: no two rows of the cars table hold the same listing_id, whatever the
\* interleaving of the scheduled and the manual discovery runs, the
\* enrichment and the cleanup.
C11_ListingIdUnique ==
    \A k, j \in 1 .. Len(catalog) :
        catalog[k].listing_id = catalog[j].listing_id => k = j

\* C11 witness: both runs read the table when it held no row for a listing
\* of their batches, one has inserted the listing and the other's commit
\* has failed on it.
C11_Witness ==
    \E k \in 1 .. Len(scraping_log) :
        /\ scraping_log[k].status = "failed"
        /\ \E j \in 1 .. Len(scraping_log) :
              scraping_log[j].status = "success" /\ scraping_log[j].cars_added > 0

\* The listing ids of the rows of cat that are inactive.
InactiveIds(cat) ==
    {cat[k].listing_id : k \in {j \in 1 .. Len(cat) : ~cat[j].is_active}}

\* C12: an inactive row becomes active only in the commit of a discovery
\* batch of more than 10 listings that holds its listing id: no enrichment,
\* no cleanup and no smaller batch turns is_active from false to true.
C12_ReactivatedOnlyByQualifyingBatch ==
    [][\A i \in InactiveIds(catalog) :
          i \in ActiveIds(catalog') =>
              \E t \in DiscThreads :
                  /\ SyncCommits(t)
                  /\ Len(cars[t]) > 10
                  /\ i \in ListingIds(cars[t])]_vars

\* The row of listing i in cat.
RowOf(cat, i) == cat[FirstRow(cat, i)]

\* first_seen_at <= last_seen_at in every row of cat.
SeenInOrder(cat) ==
    \A k \in 1 .. Len(cat) : cat[k].first_seen_at <= cat[k].last_seen_at

\* C13: first_seen_at <= last_seen_at in every row, before and after every
\* step; a row's first_seen_at is the time of its insert, and no step
\* changes the first_seen_at of a row that it keeps.
C13_FirstSeenSetOnce ==
    [][/\ SeenInOrder(catalog)
       /\ SeenInOrder(catalog')
       /\ catalog' # catalog =>
            \A k \in 1 .. Len(catalog') :
                catalog'[k].first_seen_at =
                    IF HasRow(catalog, catalog'[k].listing_id)
                    THEN RowOf(catalog, catalog'[k].listing_id).first_seen_at
                    ELSE now]_vars

\* C13 witness: a run has updated a row stored at day 0, which now holds a
\* last_seen_at later than its first_seen_at.
C13_Witness ==
    /\ pc["sched"] = "log_success"
    /\ newly_added["sched"] = <<>>
    /\ \E k \in 1 .. Len(catalog) :
          /\ catalog[k].listing_id \in ListingIds(cars["sched"])
          /\ catalog[k].first_seen_at = 0
          /\ catalog[k].last_seen_at >= StartDay

\* The step in which an enrichment ends: the priority enrichment of thread
\* t's run, or the instance of job enrich.
PriorityEnrichEnds(t) == pc[t] = "enrich" /\ pc'[t] = "idle"

BackgroundEnrichEnds == running["enrich"] /\ ~running'["enrich"]

EnrichmentEnds == BackgroundEnrichEnds \/ \E t \in DiscThreads : PriorityEnrichEnds(t)

\* C14: the step that ends an enrichment leaves no row with fewer images
\* than the row stored before it: a result with fewer images than stored
\* never replaces the stored image_urls.
C14_EnrichmentNeverShrinksGallery ==
    [][EnrichmentEnds =>
          /\ Len(catalog') = Len(catalog)
          /\ \A k \in 1 .. Len(catalog) :
                catalog'[k].image_urls >= catalog[k].image_urls]_vars

\* The rows of cat that hold one of the listing ids.
RowsIn(cat, ids) == {k \in 1 .. Len(cat) : cat[k].listing_id \in ids}

\* C15: whatever the detail page yields, a result with strictly more images
\* than a row under enrichment stores replaces the row's image_urls, in the
\* priority enrichment of a run's new listings and in job enrich alike.
C15_LargerGalleryAlwaysReplaces ==
    \A d \in GalleryResults :
        /\ \A t \in DiscThreads :
              pc[t] = "enrich" =>
                  \A k \in RowsIn(catalog,
                                  LimitedIds(newly_added[t], PRIORITY_MAX_ITEMS)) :
                      d.images > catalog[k].image_urls =>
                          PriorityUpdate(catalog[k], d).image_urls = d.images
        /\ running["enrich"] =>
              \A l \in enrich_sel :
                  \A k \in RowsIn(catalog, {l.listing_id}) :
                      d.images > catalog[k].image_urls =>
                          BackgroundUpdate(catalog[k], l, d).image_urls = d.images

\* C16: no step replaces a non-empty posted_at or a non-empty image_urls of
\* a row it keeps by an empty one; the commit of a synchronization leaves
\* in every row of its batch the batch's price, absent or not.
C16_NoDowngradeToEmpty ==
    [][catalog' # catalog =>
          /\ \A k \in 1 .. Len(catalog') :
                HasRow(catalog, catalog'[k].listing_id) =>
                    LET old == RowOf(catalog, catalog'[k].listing_id)
                    IN  /\ old.posted_at # None => catalog'[k].posted_at # None
                        /\ old.image_urls # 0 => catalog'[k].image_urls # 0
          /\ \A t \in DiscThreads :
                SyncCommits(t) =>
                    \A k \in 1 .. Len(cars[t]) :
                        RowOf(catalog', cars[t][k].listing_id).price =
                            cars[t][k].price]_vars

\* C16 witness: a run whose page showed no price, no date and no thumbnail
\* for a stored listing has committed: the row has lost its price and kept
\* its posted date and its image.
C16_Witness ==
    /\ pc["sched"] = "log_success"
    /\ newly_added["sched"] = <<>>
    /\ \E k \in 1 .. Len(cars["sched"]) :
          /\ cars["sched"][k].price = None
          /\ cars["sched"][k].posted_at = None
          /\ cars["sched"][k].image_urls = 0
          /\ LET row == RowOf(catalog, cars["sched"][k].listing_id)
             IN  /\ row.price = None
                 /\ row.posted_at # None
                 /\ row.image_urls # 0

\* The step in which the instance of job cleanup ends.
CleanupEnds == running["cleanup"] /\ ~running'["cleanup"]

\* C17: the step that ends a cleanup deletes nothing (the job failed, or no
\* row is due) or deletes exactly the rows that are inactive and hold a
\* last_seen_at strictly earlier than now - 7 days: a row last seen exactly
\* 7 days ago is kept, and so is every active row.
C17_CleanupDeletesExpiredOnly ==
    [][CleanupEnds =>
          \/ catalog' = catalog
          \/ catalog' = SelectSeq(catalog, LAMBDA c :
                            c.is_active \/ c.last_seen_at >= now - 7)]_vars

\* C17 witness: a run read listing 1, inactive and last seen more than 7
\* days ago, to update it; the cleanup deleted the row, and the run's commit
\* failed on the row it no longer found.
C17_Witness ==
    /\ catalog = <<>>
    /\ \E k \in 1 .. Len(scraping_log) : scraping_log[k].status = "failed"

\* The links of a page that are the first link to their listing outside a
\* search/category path.
FirstFreeLinks(links) ==
    {k \in 1 .. Len(links) :
        /\ ~links[k].cat
        /\ \A j \in 1 .. k - 1 : links[j].cat \/ links[j].id # links[k].id}

\* The elements of a sequence are pairwise distinct.
Distinct(s) == \A a, b \in 1 .. Len(s) : s[a] = s[b] => a = b

\* The run has collected the links of the served page.
Collected(t) == pc[t] \in {"leave_page", "reset_wait", "sync"}

\* C18: the candidates of a run are the listings of the page's first free
\* links, one candidate per listing and in the DOM order of those links,
\* and the list the run returns holds pairwise distinct listing ids, all of
\* them candidates.
C18_OneCandidatePerListing ==
    Collected("sched") =>
        LET found == car_listings["sched"]
            batch == [k \in 1 .. Len(cars["sched"]) |->
                        cars["sched"][k].listing_id]
        IN  /\ Distinct(found)
            /\ Len(found) = Cardinality(FirstFreeLinks(served))
            /\ \A k \in 1 .. Len(found) :
                  \E l \in FirstFreeLinks(served) :
                      /\ served[l].id = found[k]
                      /\ Cardinality({j \in FirstFreeLinks(served) : j < l})
                             = k - 1
            /\ Distinct(batch)
            /\ Range(batch) \subseteq Range(found)

\* C18 witness: the page holds a link to a listing under a category path,
\* then two free links to the same listing; the run has collected the
\* listing once.
C18_Witness ==
    /\ pc["sched"] = "leave_page"
    /\ Len(served) = 3
    /\ served[1].cat /\ ~served[2].cat /\ ~served[3].cat
    /\ served[1].id = served[2].id /\ served[2].id = served[3].id
    /\ car_listings["sched"] = <<served[2].id>>
    /\ Len(cars["sched"]) = 1

\* C19: once shutdown() has completed the session stays shut down: no
\* later page(), reset() or discovery run launches the browser again.
C19_ShutdownIsTerminal ==
    pc["main"] = "exited" => session = NoSession

\* The synchronization of thread t fails at its commit.
SyncFails(t) == pc[t] = "commit" /\ pc'[t] = "idle"

\* The upsert of item k of t's batch cannot be written: its INSERT meets a
\* row another transaction has committed, or its UPDATE meets no row.
UpsertFails(t, k) ==
    LET i == cars[t][k].listing_id
    IN  IF i \in Range(newly_added[t]) THEN HasRow(catalog, i)
        ELSE ~HasRow(catalog, i)

\* C20: when a synchronization fails partway through its batch, the upserts
\* of the items before the first failing one are committed (their listings
\* are stored, active and last seen now), and the failed run deactivates
\* no row.
C20_FailedSyncKeepsEarlierUpserts ==
    [][\A t \in DiscThreads :
          SyncFails(t) =>
              /\ \A k \in 1 .. Len(cars[t]) :
                    (\A j \in 1 .. k : ~UpsertFails(t, j)) =>
                        \E r \in 1 .. Len(catalog') :
                            /\ catalog'[r].listing_id = cars[t][k].listing_id
                            /\ catalog'[r].is_active
                            /\ catalog'[r].last_seen_at = now
              /\ ActiveIds(catalog) \subseteq ActiveIds(catalog')]_vars

\* The active rows of cat with at most one image.
NeedsEnrichment(cat) ==
    {k \in 1 .. Len(cat) : cat[k].is_active /\ cat[k].image_urls <= 1}

\* C21: while a background enrichment run is in flight on an unchanged
\* table, the rows it selected are the first (up to) 20, latest first seen
\* first, of all active rows with at most one image; the selection is
\* non-empty whenever such a row exists.
C21_SelectsFirstTwentyNeedy ==
    running["enrich"] =>
        LET need == NeedsEnrichment(catalog)
            sel == RowsIn(catalog, {l.listing_id : l \in enrich_sel})
        IN  /\ sel \subseteq need
            /\ Cardinality(sel) = Min(Cardinality(need), 20)
            /\ \A a \in sel, b \in need \ sel :
                  catalog[a].first_seen_at >= catalog[b].first_seen_at
            /\ need # {} => sel # {}

\* The place of the first element of the page that carries url, in any of
\* its forms.
FirstPlace(elems, url) ==
    CHOOSE k \in 1 .. Len(elems) :
        /\ elems[k] # NoUrl /\ Normalise(elems[k]) = url
        /\ \A j \in 1 .. k - 1 :
              elems[j] = NoUrl \/ Normalise(elems[j]) # url

\* C22: the image list scrape_car_details returns has at most 10 entries,
\* holds no URL twice, holds only normalised URLs of the page, in the order
\* of their first occurrence on the page, and holds no thumbnail, icon or
\* .svg URL.
C22_DetailImagesMergedAndCapped ==
    details.returned =>
        LET images == details.images
        IN  /\ Len(images) <= 10
            /\ Distinct(images)
            /\ \A k \in 1 .. Len(images) :
                  /\ images[k].form = "abs"
                  /\ images[k].kind = "photo"
                  /\ \E j \in 1 .. Len(served) :
                        served[j] # NoUrl /\ Normalise(served[j]) = images[k]
            /\ \A a, b \in 1 .. Len(images) :
                  a < b => FirstPlace(served, images[a])
                              <= FirstPlace(served, images[b])

\* C23: the commit of a discovery sync leaves every stored row with at
\* least as many images as it had: a gallery that enrichment stored is not
\* made smaller by a later sync of a batch that holds the listing.
C23_SyncNeverShrinksGallery ==
    [][\A t \in DiscThreads :
          SyncCommits(t) =>
              \A k \in 1 .. Len(catalog) :
                  catalog'[k].image_urls >= catalog[k].image_urls]_vars

\* The listings the enrichment run in flight has selected.
SelectedIds == {l.listing_id : l \in enrich_sel}

\* The listings stored active with at most one image.
NeedyIds == {catalog[k].listing_id : k \in NeedsEnrichment(catalog)}

\* C24: with the enrichment job firing again and again, a listing that
\* stays active with at most one image is eventually selected by a run,
\* whatever the detail pages of the other listings yield.
C24_NeedyRowEventuallySelected ==
    \A i \in 1 .. MaxNeedy :
        [](i \in NeedyIds) => <>(i \in SelectedIds)

\* Thread t has been handed the page by page() and is inside its block.
HandedPage(t) == pc[t] \in {"render", "collect", "leave_page", "reset_wait"}

\* C25: while a caller holds the page that page() handed to it, the session
\* is fully started: driver, browser, context and page are present and the
\* page is the one created last.
C25_HandedPageIsStarted ==
    \A t \in DiscThreads :
        HandedPage(t) =>
            /\ session.playwright /\ session.browser /\ session.context
            /\ session.page # None
            /\ session.page = pages_made

\* C26: the step that ends a priority or a background enrichment keeps the
\* rows of the table (none inserted, none deleted) and changes at most
\* image_urls and posted_at of a row: listing_id, is_active, first_seen_at,
\* last_seen_at and price stay as they were.
C26_EnrichmentFrame ==
    [][(EnrichmentEnds /\ catalog' # catalog) =>
          /\ Len(catalog') = Len(catalog)
          /\ \A k \in 1 .. Len(catalog) :
                catalog'[k] =
                    [catalog[k] EXCEPT !.image_urls = catalog'[k].image_urls,
                                       !.posted_at = catalog'[k].posted_at]]_vars

\* C26 witness: the background enrichment has ended and a row holds the
\* gallery it stored, with its price, its dates and its activity.
C26_Witness ==
    /\ ~running["enrich"]
    /\ \E k \in 1 .. Len(catalog) :
          /\ catalog[k].image_urls = MaxGallery
          /\ catalog[k].is_active
          /\ catalog[k].price = 1
          /\ catalog[k].first_seen_at = 0

\* Thread t ends the consent part of its run.
ConsentEnds(t) == pc[t] = "render" /\ pc'[t] # "render"

\* The selectors of a run's attempts that were clicked.
Clicked(tried) == {k \in 1 .. Len(tried) : tried[k].outcome = "click"}

\* C27: a run that finds the consent flag set tries no selector and leaves
\* the flag set; a run that finds it unset tries the selectors in their
\* fixed order, stops at the first click and clicks no other, sets the flag
\* exactly when it clicked, and tries all of them when none is clicked; the
\* flag, once set, is cleared only by reset() or shutdown().
C27_ConsentOncePerSession ==
    [][/\ \A t \in DiscThreads :
            ConsentEnds(t) =>
                LET tried == attempts'[t]
                IN  IF session.cookies_accepted
                    THEN tried = <<>> /\ session'.cookies_accepted
                    ELSE /\ \A k \in 1 .. Len(tried) : tried[k].selector = k
                         /\ Cardinality(Clicked(tried)) <= 1
                         /\ Clicked(tried) \subseteq {Len(tried)}
                         /\ Clicked(tried) = {} => Len(tried) = 4
                         /\ session'.cookies_accepted = (Clicked(tried) # {})
       /\ (session.cookies_accepted /\ ~session'.cookies_accepted) =>
              \E t \in Threads : pc[t] \in {"in_reset", "in_shutdown"}]_vars

\* C27 witness: a second run found the flag set by the first and went on
\* to collect the links without trying a selector.
C27_Witness ==
    /\ pc["sched"] = "collect"
    /\ Len(scraping_log) = 2
    /\ session.cookies_accepted
    /\ attempts["sched"] = <<>>

\* reset() called by thread t returns.
ResetReturns(t) == pc[t] = "in_reset" /\ pc'[t] = "leave_page"

\* C28: a reset() that returns has, on a session with a context, replaced
\* the page by a page created in the call and cleared the consent flag,
\* with driver, browser and context as they were, whether the close of the
\* old page succeeded or raised; on a session without a context it has
\* changed nothing and closed nothing.
C28_ResetFrame ==
    [][\A t \in DiscThreads :
          ResetReturns(t) =>
              IF session.context
              THEN /\ pages_made' = pages_made + 1
                   /\ session' = [session EXCEPT !.page = pages_made',
                                                  !.cookies_accepted = FALSE]
                   /\ \A k \in 1 .. Len(closes') : closes'[k].handle = "page"
              ELSE /\ session' = session
                   /\ pages_made' = pages_made
                   /\ closes' = <<>>]_vars

\* C28 witness: reset() has returned on a session whose consent flag it
\* cleared; the close of the old page raised and the session is on the
\* page created in the call.
C28_Witness ==
    /\ pc["sched"] = "leave_page"
    /\ closes = <<[handle |-> "page", ok |-> FALSE]>>
    /\ session.context /\ session.browser /\ session.playwright
    /\ session.page = pages_made
    /\ pages_made > 1
    /\ ~session.cookies_accepted

\* The place of a handle in the teardown order.
TeardownRank(h) ==
    CASE h = "page" -> 1 [] h = "context" -> 2 [] h = "browser" -> 3
      [] h = "playwright" -> 4

\* The handles a session holds.
Held(s) ==
    {h \in {"context", "browser", "playwright"} : s[h]}
    \cup (IF s.page # None THEN {"page"} ELSE {})

\* C29: the step in which shutdown() returns has closed every handle the
\* session held, once each, page before context before browser before
\* driver, whichever of the closes raised, and leaves all four handles
\* absent and the consent flag cleared.
C29_ShutdownTeardown ==
    [][(pc["main"] = "in_shutdown" /\ pc'["main"] = "exited") =>
          /\ {closes'[k].handle : k \in 1 .. Len(closes')} = Held(session)
          /\ Len(closes') = Cardinality(Held(session))
          /\ \A a, b \in 1 .. Len(closes') :
                a < b => TeardownRank(closes'[a].handle)
                            < TeardownRank(closes'[b].handle)
          /\ ~session'.playwright /\ ~session'.browser /\ ~session'.context
          /\ session'.page = None
          /\ ~session'.cookies_accepted]_vars

\* C29 witness: shutdown() has returned; the close of the page and the
\* close of the browser raised, context and driver were closed after them,
\* and no handle is left.
C29_Witness ==
    /\ pc["main"] = "exited"
    /\ closes = <<[handle |-> "page", ok |-> FALSE],
                  [handle |-> "context", ok |-> TRUE],
                  [handle |-> "browser", ok |-> FALSE],
                  [handle |-> "playwright", ok |-> TRUE]>>
    /\ session = NoSession

\* The place of x in a sequence of distinct elements.
PlaceIn(s, x) == CHOOSE k \in 1 .. Len(s) : s[k] = x

\* C30: the list a run returns holds at most max_items listings, all among
\* the first max_items unique candidates and in their DOM order; the only
\* candidates missing from it are candidates whose extraction may raise
\* (the first MaxErrIdx), so an error removes that candidate alone and the
\* candidates after it are extracted.
C30_BatchIsFirstCandidates ==
    pc["sched"] = "leave_page" =>
        LET first == SubSeq(car_listings["sched"], 1,
                            Min(Len(car_listings["sched"]),
                                FAST_SCRAPE_MAX_CARS))
            batch == [k \in 1 .. Len(cars["sched"]) |->
                        cars["sched"][k].listing_id]
        IN  /\ Len(batch) <= FAST_SCRAPE_MAX_CARS
            /\ Len(batch) >= Len(first) - MaxErrIdx
            /\ Range(batch) \subseteq Range(first)
            /\ \A a, b \in 1 .. Len(batch) :
                  a < b => PlaceIn(first, batch[a]) < PlaceIn(first, batch[b])
            /\ \A k \in MaxErrIdx + 1 .. Len(first) :
                  \E j \in 1 .. Len(batch) : batch[j] = first[k]

\* C30 witness: the page gave more unique candidates than max_items and
\* the extraction of the first raised: the run returns the candidates 2 to
\* max_items.
C30_Witness ==
    /\ pc["sched"] = "leave_page"
    /\ Len(car_listings["sched"]) > FAST_SCRAPE_MAX_CARS
    /\ Len(cars["sched"]) = FAST_SCRAPE_MAX_CARS - 1
    /\ cars["sched"][1].listing_id = car_listings["sched"][2]

\* C31: while a run's priority enrichment is pending or in progress, the
\* run's row of the scraping log is completed with status success and the
\* listings the run inserted are stored; the step that ends the enrichment
\* changes only rows of the first 10 listings the run inserted, in
\* insertion order, and leaves the scraping log as it is, whether the
\* enrichment succeeded or failed.
C31_PriorityEnrichAfterCommit ==
    [][\A t \in DiscThreads :
          PriorityEnrichEnds(t) =>
              LET first == SubSeq(newly_added[t], 1,
                                  Min(Len(newly_added[t]), 10))
              IN  /\ scraping_log[log_row[t]].status = "success"
                  /\ scraping_log[log_row[t]].completed
                  /\ \A k \in 1 .. Len(newly_added[t]) :
                        HasRow(catalog, newly_added[t][k])
                  /\ Len(catalog') = Len(catalog)
                  /\ \A k \in 1 .. Len(catalog) :
                        catalog'[k] # catalog[k] =>
                            catalog[k].listing_id \in Range(first)
                  /\ scraping_log' = scraping_log]_vars

\* C31 witness: a run inserted 12 listings and its priority enrichment has
\* ended: the first 10 hold the gallery, the last 2 their thumbnail, and the
\* run is recorded as a success.
C31_Witness ==
    /\ pc["sched"] = "idle"
    /\ Len(catalog) = 12
    /\ Cardinality({k \in 1 .. Len(catalog) :
                        catalog[k].image_urls = MaxGallery}) = 10
    /\ catalog[11].image_urls = 1 /\ catalog[12].image_urls = 1
    /\ Len(scraping_log) = 1
    /\ scraping_log[1].status = "success"
    /\ scraping_log[1].cars_added = 12

\* The steps of the enrichments: a background run starts or ends, the
\* priority enrichment of a discovery run ends.
EnrichmentStep ==
    \/ JobStart("enrich")
    \/ JobFinish("enrich", {[images |-> MaxGallery, posted_at |-> 1]})
    \/ \E t \in DiscThreads :
          PriorityEnrich(t, {[images |-> MaxGallery, posted_at |-> 1]})

\* C32: no step of an enrichment changes the session lock, the session,
\* its pages or its close() calls; an enrichment in flight can end, and a
\* new one can start, whoever holds the session; and a discovery run that
\* waits for the session waits for a thread inside a page(), reset() or
\* shutdown() call, never for an enrichment.
C32_EnrichmentOffTheSession ==
    /\ ~ENABLED (/\ EnrichmentStep
                 /\ <<locked, session, pages_made, closes>>'
                       # <<locked, session, pages_made, closes>>)
    /\ running["enrich"] =>
          ENABLED JobFinish("enrich", {[images |-> MaxGallery, posted_at |-> 1]})
    /\ (scheduler_running /\ ~running["enrich"]) => ENABLED JobStart("enrich")
    /\ \A t \in DiscThreads :
          /\ pc[t] = "enrich" =>
                ENABLED PriorityEnrich(t, {[images |-> MaxGallery,
                                           posted_at |-> 1]})
          /\ (pc[t] = "page_wait" /\ ~ENABLED LockAcquire(t)) =>
                \E u \in Threads \ {t} : pc[u] \in InsideSession

\* C32 witness: the scheduler's run holds the session and collects the
\* links while the priority enrichment of the manual run and a background
\* enrichment are in progress.
C32_Witness ==
    /\ locked
    /\ pc["sched"] = "collect"
    /\ pc["manual"] = "enrich"
    /\ running["enrich"]

\* A row is inactive and its retention period ends within the days the
\* clock covers.
AwaitsCleanup(cat) ==
    {k \in 1 .. Len(cat) :
        ~cat[k].is_active /\ cat[k].last_seen_at + RETENTION_DAYS < StartDay + MaxTicks}

\* C33: with the clock advancing and the cleanup job firing, whenever a row
\* is inactive (and its retention period ends within the days the clock
\* covers), a later state holds no such row: the row has been deleted,
\* unless a later discovery batch observed it and made it active again.
C33_InactiveEventuallyDeleted == []<>(AwaitsCleanup(catalog) = {})

\* C33 witness: a run found 11 of the 12 stored listings and deactivated
\* the twelfth, and the cleanup job has deleted it.
C33_Witness ==
    /\ Len(scraping_log) >= 1
    /\ scraping_log[1].status = "success"
    /\ scraping_log[1].cars_found = 11
    /\ ~running["cleanup"]
    /\ Len(catalog) = 11
    /\ 12 \notin ListingIds(catalog)

\* The step in which the row of thread t's run is completed as a success.
LogsSuccess(t) == pc[t] = "log_success" /\ pc'[t] # "log_success"

\* C34: the commit of a run inserts one row for each listing it counted as
\* new and no other; the row the run then records as a success holds
\* cars_found = the size of the batch, cars_added = the number of rows the
\* run inserted and cars_added + cars_updated = cars_found; and a row
\* recorded as a success keeps these counts.
C34_SuccessCountsAddUp ==
    [][(pc' # pc \/ scraping_log' # scraping_log) =>
        /\ \A t \in DiscThreads :
              /\ SyncCommits(t) =>
                    /\ Len(catalog') = Len(catalog) + Len(newly_added[t])
                    /\ ListingIds(catalog') \ ListingIds(catalog)
                          = Range(newly_added[t])
                    /\ Distinct(newly_added[t])
              /\ LogsSuccess(t) =>
                    LET row == scraping_log'[log_row[t]]
                    IN  /\ row.status = "success"
                        /\ row.cars_found = Len(cars[t])
                        /\ row.cars_added = Len(newly_added[t])
                        /\ row.cars_added + row.cars_updated = row.cars_found
        /\ \A k \in 1 .. Len(scraping_log) :
              scraping_log[k].status = "success" =>
                 /\ scraping_log[k].cars_added + scraping_log[k].cars_updated
                       = scraping_log[k].cars_found
                 /\ scraping_log'[k] = scraping_log[k]]_vars

\* C34 witness: a run that found ten listings, nine of them new and one
\* stored, is recorded as a success.
C34_Witness ==
    \E k \in 1 .. Len(scraping_log) :
        /\ scraping_log[k].status = "success"
        /\ scraping_log[k].cars_found = 10
        /\ scraping_log[k].cars_added = 9
        /\ scraping_log[k].cars_updated = 1

\* The entries of common_brands that match the text as a whole word.
WholeWordBrands(text) ==
    {b \in 1 .. Len(common_brands) : Search(text, common_brands[b]) # 0}

\* C35: the brand returned for a title is the first entry of the vocabulary
\* that matches the title as a whole word, whatever the letter case; for a
\* title no entry matches as a whole word, brand and model are both absent.
C35_BrandOnlyForWholeWord ==
    parsed.returned =>
        IF WholeWordBrands(title) = {}
        THEN parsed.brand = None /\ parsed.model = <<>>
        ELSE parsed.brand = Least(WholeWordBrands(title))

====
